---- MODULE Spec2Model ----
(***************************************************************************)
(* Policy resolution engine of cloudflare-token-generator (package         *)
(* cftoken): the static service catalog, Generator.GenerateMulti,          *)
(* Generator.GodMode and their helpers, as a state machine whose steps are *)
(* the statements of the Go code between two reads of shared state or two  *)
(* remote calls.                                                           *)
(*                                                                         *)
(* Go strings that the code inspects (ToLower, TrimSpace, Contains, "+")   *)
(* are sequences of one-character strings, so that these operations are    *)
(* computed and not assumed.  Permission identifiers are opaque and are    *)
(* TLA+ strings.  Service.Description is left out: no operation modelled   *)
(* here reads it.                                                          *)
(***************************************************************************)
EXTENDS Integers, Sequences, FiniteSets, TLC

\* ------------------------------------------------------------------------
\* Bounds of the exploration
\* ------------------------------------------------------------------------

\* longest list of service keys passed to GenerateMulti
MaxServices ==
    2

\* longest list of permission groups returned by the discovery endpoint
MaxGroups ==
    2

\* number of times a caller repeats the same GenerateMulti call in a row
MaxCalls ==
    2

\* number of goroutines that call into one Generator concurrently
NumCallers ==
    2

\* ------------------------------------------------------------------------
\* Go strings
\* ------------------------------------------------------------------------

UpperCase ==
    <<"A","B","C","D","E","F","G","H","I","J","K","L","M",
      "N","O","P","Q","R","S","T","U","V","W","X","Y","Z">>

LowerCase ==
    <<"a","b","c","d","e","f","g","h","i","j","k","l","m",
      "n","o","p","q","r","s","t","u","v","w","x","y","z">>

\* the lower-case letter of each upper-case letter
LowerOf ==
    [ch \in {UpperCase[k] : k \in 1..26} |->
        LowerCase[CHOOSE k \in 1..26 : UpperCase[k] = ch]]

\* unicode.ToLower on one ASCII character
ToLowerChar(ch) ==
    IF ch \in DOMAIN LowerOf THEN LowerOf[ch] ELSE ch

\* strings.ToLower
ToLower(s) ==
    [k \in 1..Len(s) |-> ToLowerChar(s[k])]

\* unicode.IsSpace on one ASCII character
IsSpace(ch) ==
    ch \in {" ", "\t", "\n", "\r"}

\* strings.TrimSpace: drop leading and trailing white space
TrimSpace(s) ==
    LET keep == {k \in 1..Len(s) : ~IsSpace(s[k])}
        lo == CHOOSE k \in keep : \A m \in keep : k <= m
        hi == CHOOSE k \in keep : \A m \in keep : k >= m
    IN  IF keep = {} THEN <<>> ELSE SubSeq(s, lo, hi)

\* strings.Contains
Contains(s, substr) ==
    \E k \in 1..(Len(s) - Len(substr) + 1) :
        SubSeq(s, k, k + Len(substr) - 1) = substr

\* strings.Join
RECURSIVE Join(_, _)
Join(elems, sep) ==
    IF Len(elems) = 0 THEN <<>>
    ELSE IF Len(elems) = 1 THEN elems[1]
    ELSE elems[1] \o sep \o Join(Tail(elems), sep)

\* string literals of the source
\* "read"
LitRead ==
    <<"r","e","a","d">>

\* "edit"
LitEdit ==
    <<"e","d","i","t">>

\* "all"
LitAll ==
    <<"a","l","l">>

\* "api token"
LitApiToken ==
    <<"a","p","i"," ","t","o","k","e","n">>

\* "zone"
LitZone ==
    <<"z","o","n","e">>

\* "account"
LitAccount ==
    <<"a","c","c","o","u","n","t">>

\* "godmode"
LitGodmode ==
    <<"g","o","d","m","o","d","e">>

\* "-"
LitDash ==
    <<"-">>

\* ", "
LitCommaSpace ==
    <<","," ">>

\* "com.cloudflare.api.account.zone.*"
LitZoneWildcard ==
    <<"c","o","m",".","c","l","o","u","d","f","l","a","r","e",".","a","p","i",".","a","c","c","o","u","n","t",".","z","o","n","e",".","*">>

\* "com.cloudflare.api.account."
LitAccountPrefix ==
    <<"c","o","m",".","c","l","o","u","d","f","l","a","r","e",".","a","p","i",".","a","c","c","o","u","n","t",".">>

\* "com.cloudflare.api.account.zone."
LitZonePrefix ==
    <<"c","o","m",".","c","l","o","u","d","f","l","a","r","e",".","a","p","i",".","a","c","c","o","u","n","t",".","z","o","n","e",".">>

\* ------------------------------------------------------------------------
\* Service catalog
\* ------------------------------------------------------------------------

ResourceScopeZone ==
    "zone"

ResourceScopeAccount ==
    "account"

\* "dns"
Svc_dns ==
    [Name |-> <<"d","n","s">>,
     ResourceScope |-> ResourceScopeZone,
     Permissions |-> <<
        \* "DNS Read"
        [ID |-> "82e64a83756745bbbb1c9c2701bf816b",
         Name |-> <<"D","N","S"," ","R","e","a","d">>],
        \* "DNS Write"
        [ID |-> "4755a26eedb94da69e1066d98aa820be",
         Name |-> <<"D","N","S"," ","W","r","i","t","e">>]
     >>]

\* "zone"
Svc_zone ==
    [Name |-> <<"z","o","n","e">>,
     ResourceScope |-> ResourceScopeZone,
     Permissions |-> <<
        \* "Zone Read"
        [ID |-> "c8fed203ed3043cba015a93ad1616f1f",
         Name |-> <<"Z","o","n","e"," ","R","e","a","d">>],
        \* "Zone Settings Write"
        [ID |-> "3030687196b94b638145a3953da2b699",
         Name |-> <<"Z","o","n","e"," ","S","e","t","t","i","n","g","s"," ","W","r","i","t","e">>]
     >>]

\* "cache"
Svc_cache ==
    [Name |-> <<"c","a","c","h","e">>,
     ResourceScope |-> ResourceScopeZone,
     Permissions |-> <<
        \* "Cache Purge"
        [ID |-> "e17beae8b8cb423a99b1730f21238bed",
         Name |-> <<"C","a","c","h","e"," ","P","u","r","g","e">>]
     >>]

\* "firewall"
Svc_firewall ==
    [Name |-> <<"f","i","r","e","w","a","l","l">>,
     ResourceScope |-> ResourceScopeZone,
     Permissions |-> <<
        \* "Firewall Services Read"
        [ID |-> "4ec32dfcb35641c5bb32d5ef1ab963b4",
         Name |-> <<"F","i","r","e","w","a","l","l"," ","S","e","r","v","i","c","e","s"," ","R","e","a","d">>],
        \* "Firewall Services Write"
        [ID |-> "43137f8d07884d3198dc0ee77ca6e79b",
         Name |-> <<"F","i","r","e","w","a","l","l"," ","S","e","r","v","i","c","e","s"," ","W","r","i","t","e">>]
     >>]

\* "ssl"
Svc_ssl ==
    [Name |-> <<"s","s","l">>,
     ResourceScope |-> ResourceScopeZone,
     Permissions |-> <<
        \* "SSL and Certificates Read"
        [ID |-> "7b7216b327b04b8fbc8f524e1f9b7531",
         Name |-> <<"S","S","L"," ","a","n","d"," ","C","e","r","t","i","f","i","c","a","t","e","s"," ","R","e","a","d">>],
        \* "SSL and Certificates Write"
        [ID |-> "c03055bc037c4ea9afb9a9f104b7b721",
         Name |-> <<"S","S","L"," ","a","n","d"," ","C","e","r","t","i","f","i","c","a","t","e","s"," ","W","r","i","t","e">>]
     >>]

\* "waf"
Svc_waf ==
    [Name |-> <<"w","a","f">>,
     ResourceScope |-> ResourceScopeZone,
     Permissions |-> <<
        \* "Zone WAF Read"
        [ID |-> "dbc512b354774852af2b5a5f4ba3d470",
         Name |-> <<"Z","o","n","e"," ","W","A","F"," ","R","e","a","d">>],
        \* "Zone WAF Write"
        [ID |-> "fb6778dc191143babbfaa57993f1d275",
         Name |-> <<"Z","o","n","e"," ","W","A","F"," ","W","r","i","t","e">>]
     >>]

\* "loadbalancer"
Svc_loadbalancer ==
    [Name |-> <<"l","o","a","d","b","a","l","a","n","c","e","r">>,
     ResourceScope |-> ResourceScopeZone,
     Permissions |-> <<
        \* "Load Balancers Read"
        [ID |-> "e9a975f628014f1d85b723993116f7d5",
         Name |-> <<"L","o","a","d"," ","B","a","l","a","n","c","e","r","s"," ","R","e","a","d">>],
        \* "Load Balancers Write"
        [ID |-> "6d7f2f5f5b1d4a0e9081fdc98d432fd1",
         Name |-> <<"L","o","a","d"," ","B","a","l","a","n","c","e","r","s"," ","W","r","i","t","e">>]
     >>]

\* "pagerules"
Svc_pagerules ==
    [Name |-> <<"p","a","g","e","r","u","l","e","s">>,
     ResourceScope |-> ResourceScopeZone,
     Permissions |-> <<
        \* "Page Rules Read"
        [ID |-> "b415b70a4fd1412886f164451f20405c",
         Name |-> <<"P","a","g","e"," ","R","u","l","e","s"," ","R","e","a","d">>],
        \* "Page Rules Write"
        [ID |-> "ed07f6c337da4195b4e72a1fb2c6bcae",
         Name |-> <<"P","a","g","e"," ","R","u","l","e","s"," ","W","r","i","t","e">>]
     >>]

\* "workers"
Svc_workers ==
    [Name |-> <<"w","o","r","k","e","r","s">>,
     ResourceScope |-> ResourceScopeAccount,
     Permissions |-> <<
        \* "Workers Scripts Read"
        [ID |-> "1a71c399035b4950a1bd1466bbe4f420",
         Name |-> <<"W","o","r","k","e","r","s"," ","S","c","r","i","p","t","s"," ","R","e","a","d">>],
        \* "Workers Scripts Write"
        [ID |-> "e086da7e2179491d91ee5f35b3ca210a",
         Name |-> <<"W","o","r","k","e","r","s"," ","S","c","r","i","p","t","s"," ","W","r","i","t","e">>]
     >>]

\* "kv"
Svc_kv ==
    [Name |-> <<"k","v">>,
     ResourceScope |-> ResourceScopeAccount,
     Permissions |-> <<
        \* "Workers KV Storage Read"
        [ID |-> "8b47d2786a534c08a1f94ee8f9f599ef",
         Name |-> <<"W","o","r","k","e","r","s"," ","K","V"," ","S","t","o","r","a","g","e"," ","R","e","a","d">>],
        \* "Workers KV Storage Write"
        [ID |-> "f7f0eda5697f475c90846e879bab8666",
         Name |-> <<"W","o","r","k","e","r","s"," ","K","V"," ","S","t","o","r","a","g","e"," ","W","r","i","t","e">>]
     >>]

\* "r2"
Svc_r2 ==
    [Name |-> <<"r","2">>,
     ResourceScope |-> ResourceScopeAccount,
     Permissions |-> <<
        \* "Workers R2 Storage Read"
        [ID |-> "b4992e1108244f5d8bfbd5744320c2e1",
         Name |-> <<"W","o","r","k","e","r","s"," ","R","2"," ","S","t","o","r","a","g","e"," ","R","e","a","d">>],
        \* "Workers R2 Storage Write"
        [ID |-> "bf7481a1826f439697cb59a20b22293e",
         Name |-> <<"W","o","r","k","e","r","s"," ","R","2"," ","S","t","o","r","a","g","e"," ","W","r","i","t","e">>]
     >>]

\* "pages"
Svc_pages ==
    [Name |-> <<"p","a","g","e","s">>,
     ResourceScope |-> ResourceScopeAccount,
     Permissions |-> <<
        \* "Pages Read"
        [ID |-> "e247aedd66bd41cc9193af0213416666",
         Name |-> <<"P","a","g","e","s"," ","R","e","a","d">>],
        \* "Pages Write"
        [ID |-> "8d28297797f24fb8a29572aaac2f254d",
         Name |-> <<"P","a","g","e","s"," ","W","r","i","t","e">>]
     >>]

\* "d1"
Svc_d1 ==
    [Name |-> <<"d","1">>,
     ResourceScope |-> ResourceScopeAccount,
     Permissions |-> <<
        \* "D1 Read"
        [ID |-> "192192df92ee43ac90f2aeeffce67e35",
         Name |-> <<"D","1"," ","R","e","a","d">>],
        \* "D1 Write"
        [ID |-> "09b2857d1c31407795e75e3fed8617a1",
         Name |-> <<"D","1"," ","W","r","i","t","e">>]
     >>]

\* "queues"
Svc_queues ==
    [Name |-> <<"q","u","e","u","e","s">>,
     ResourceScope |-> ResourceScopeAccount,
     Permissions |-> <<
        \* "Queues Read"
        [ID |-> "84a7755d54c646ca87cd50682a34bf7c",
         Name |-> <<"Q","u","e","u","e","s"," ","R","e","a","d">>],
        \* "Queues Write"
        [ID |-> "366f57075ffc42689627bcf8242a1b6d",
         Name |-> <<"Q","u","e","u","e","s"," ","W","r","i","t","e">>]
     >>]

\* "ai"
Svc_ai ==
    [Name |-> <<"a","i">>,
     ResourceScope |-> ResourceScopeAccount,
     Permissions |-> <<
        \* "Workers AI Read"
        [ID |-> "a92d2450e05d4e7bb7d0a64968f83d11",
         Name |-> <<"W","o","r","k","e","r","s"," ","A","I"," ","R","e","a","d">>],
        \* "Workers AI Write"
        [ID |-> "bacc64e0f6c34fc0883a1223f938a104",
         Name |-> <<"W","o","r","k","e","r","s"," ","A","I"," ","W","r","i","t","e">>]
     >>]

\* "stream"
Svc_stream ==
    [Name |-> <<"s","t","r","e","a","m">>,
     ResourceScope |-> ResourceScopeAccount,
     Permissions |-> <<
        \* "Stream Read"
        [ID |-> "de21485a24744b76a004aa153898f7fe",
         Name |-> <<"S","t","r","e","a","m"," ","R","e","a","d">>],
        \* "Stream Write"
        [ID |-> "714f9c13a5684c2885a793f5edb36f59",
         Name |-> <<"S","t","r","e","a","m"," ","W","r","i","t","e">>]
     >>]

\* "images"
Svc_images ==
    [Name |-> <<"i","m","a","g","e","s">>,
     ResourceScope |-> ResourceScopeAccount,
     Permissions |-> <<
        \* "Images Read"
        [ID |-> "0cf6473ad41449e7b7b743d14fc20c60",
         Name |-> <<"I","m","a","g","e","s"," ","R","e","a","d">>],
        \* "Images Write"
        [ID |-> "618ec6c64a3a42f8b08bdcb147ded4e4",
         Name |-> <<"I","m","a","g","e","s"," ","W","r","i","t","e">>]
     >>]

\* "tunnels"
Svc_tunnels ==
    [Name |-> <<"t","u","n","n","e","l","s">>,
     ResourceScope |-> ResourceScopeAccount,
     Permissions |-> <<
        \* "Cloudflare Tunnel Read"
        [ID |-> "efea2ab8357b47888938f101ae5e053f",
         Name |-> <<"C","l","o","u","d","f","l","a","r","e"," ","T","u","n","n","e","l"," ","R","e","a","d">>],
        \* "Cloudflare Tunnel Write"
        [ID |-> "c07321b023e944ff818fec44d8203567",
         Name |-> <<"C","l","o","u","d","f","l","a","r","e"," ","T","u","n","n","e","l"," ","W","r","i","t","e">>]
     >>]

ServiceTable ==
    (<<"d","n","s">> :> Svc_dns) @@
    (<<"z","o","n","e">> :> Svc_zone) @@
    (<<"c","a","c","h","e">> :> Svc_cache) @@
    (<<"f","i","r","e","w","a","l","l">> :> Svc_firewall) @@
    (<<"s","s","l">> :> Svc_ssl) @@
    (<<"w","a","f">> :> Svc_waf) @@
    (<<"l","o","a","d","b","a","l","a","n","c","e","r">> :> Svc_loadbalancer) @@
    (<<"p","a","g","e","r","u","l","e","s">> :> Svc_pagerules) @@
    (<<"w","o","r","k","e","r","s">> :> Svc_workers) @@
    (<<"k","v">> :> Svc_kv) @@
    (<<"r","2">> :> Svc_r2) @@
    (<<"p","a","g","e","s">> :> Svc_pages) @@
    (<<"d","1">> :> Svc_d1) @@
    (<<"q","u","e","u","e","s">> :> Svc_queues) @@
    (<<"a","i">> :> Svc_ai) @@
    (<<"s","t","r","e","a","m">> :> Svc_stream) @@
    (<<"i","m","a","g","e","s">> :> Svc_images) @@
    (<<"t","u","n","n","e","l","s">> :> Svc_tunnels)

\* ------------------------------------------------------------------------
\* Pure helpers of the package
\* ------------------------------------------------------------------------

\* the two permission levels GenerateMulti accepts after lower-casing
ValidLevels ==
    {LitRead, LitEdit}

\* filterPermissions without the filter: every level keeps the whole list
filterPermissionsKeepAll(perms, level) ==
    perms

\* filterPermissions with the test negated: "read" keeps the permissions
\* whose name does not contain "read"
filterPermissionsDropRead(perms, level) ==
    IF level = LitEdit
    THEN perms
    ELSE SelectSeq(perms, LAMBDA p : ~Contains(ToLower(p.Name), LitRead))

\* "read" keeps the permissions whose name contains "read" in any case,
\* "edit" keeps the list as it is
filterPermissions(perms, level) ==
    IF level = LitEdit
    THEN perms
    ELSE SelectSeq(perms, LAMBDA p : Contains(ToLower(p.Name), LitRead))

\* ServiceLevels that looks for "read" in the name as spelled
ServiceLevelsCaseSensitive(svc) ==
    IF \E k \in 1..Len(svc.Permissions) :
           Contains(svc.Permissions[k].Name, LitRead)
    THEN <<LitRead, LitEdit>>
    ELSE <<LitEdit>>

\* levels a service supports
ServiceLevels(svc) ==
    IF \E k \in 1..Len(svc.Permissions) :
           Contains(ToLower(svc.Permissions[k].Name), LitRead)
    THEN <<LitRead, LitEdit>>
    ELSE <<LitEdit>>

\* a Go error value: the format string that built it (kind) and the values
\* substituted into it, in order
NoError ==
    [kind |-> "nil", args |-> <<>>]

ErrInvalidLevel(level) ==
    [kind |-> "invalid permission level", args |-> <<level>>]

ErrUnknownService(s) ==
    [kind |-> "unknown service", args |-> <<s>>]

ErrUnsupportedLevel(svc, level) ==
    [kind |-> "does not support level",
     args |-> <<svc.Name, level, Join(ServiceLevels(svc), LitCommaSpace)>>]

ErrAccountIDRequired(svc) ==
    [kind |-> "account_id required for account-scoped service",
     args |-> <<svc.Name>>]

ErrAccountIDRequiredGodMode ==
    [kind |-> "account_id required for godmode", args |-> <<>>]

ErrCreatingToken ==
    [kind |-> "creating token", args |-> <<>>]

ErrFetchingPermissionGroups ==
    [kind |-> "fetching permission groups", args |-> <<>>]

\* a Go map[string]interface{} with no entry (also the nil map)
EmptyResources ==
    [k \in {} |-> "*"]

\* buildResources that never asks for the account ID
buildResourcesUnchecked(gen, svc, scope) ==
    IF ToLower(scope) = LitAll
    THEN IF svc.ResourceScope = ResourceScopeZone
         THEN [resources |-> (LitZoneWildcard :> "*"), err |-> NoError]
         ELSE [resources |-> ((LitAccountPrefix \o gen.accountID) :> "*"),
               err |-> NoError]
    ELSE IF svc.ResourceScope = ResourceScopeZone
         THEN [resources |-> ((LitZonePrefix \o scope) :> "*"), err |-> NoError]
         ELSE [resources |-> ((LitAccountPrefix \o scope) :> "*"),
               err |-> NoError]

\* buildResources that writes the lower-cased scope into the path
buildResourcesLowered(gen, svc, scope) ==
    LET lowered == ToLower(scope)
    IN  IF lowered = LitAll
        THEN IF svc.ResourceScope = ResourceScopeZone
             THEN [resources |-> (LitZoneWildcard :> "*"), err |-> NoError]
             ELSE IF gen.accountID = <<>>
                  THEN [resources |-> EmptyResources,
                        err |-> ErrAccountIDRequired(svc)]
                  ELSE [resources |->
                            ((LitAccountPrefix \o gen.accountID) :> "*"),
                        err |-> NoError]
        ELSE IF svc.ResourceScope = ResourceScopeZone
             THEN [resources |-> ((LitZonePrefix \o lowered) :> "*"),
                   err |-> NoError]
             ELSE [resources |-> ((LitAccountPrefix \o lowered) :> "*"),
                   err |-> NoError]

\* buildResources that narrows scope "all" to the default zone of the
\* Generator when it has one
buildResourcesDefaultZone(gen, svc, scope) ==
    IF ToLower(scope) = LitAll
    THEN IF svc.ResourceScope = ResourceScopeZone
         THEN IF gen.zoneID /= <<>>
              THEN [resources |-> ((LitZonePrefix \o gen.zoneID) :> "*"),
                    err |-> NoError]
              ELSE [resources |-> (LitZoneWildcard :> "*"), err |-> NoError]
         ELSE IF gen.accountID = <<>>
              THEN [resources |-> EmptyResources,
                    err |-> ErrAccountIDRequired(svc)]
              ELSE [resources |-> ((LitAccountPrefix \o gen.accountID) :> "*"),
                    err |-> NoError]
    ELSE IF svc.ResourceScope = ResourceScopeZone
         THEN [resources |-> ((LitZonePrefix \o scope) :> "*"), err |-> NoError]
         ELSE [resources |-> ((LitAccountPrefix \o scope) :> "*"),
               err |-> NoError]

\* buildResources that asks for the account ID for every account-scoped
\* service, whatever the scope
buildResourcesStrict(gen, svc, scope) ==
    IF svc.ResourceScope = ResourceScopeZone
    THEN IF ToLower(scope) = LitAll
         THEN [resources |-> (LitZoneWildcard :> "*"), err |-> NoError]
         ELSE [resources |-> ((LitZonePrefix \o scope) :> "*"), err |-> NoError]
    ELSE IF gen.accountID = <<>>
         THEN [resources |-> EmptyResources, err |-> ErrAccountIDRequired(svc)]
         ELSE IF ToLower(scope) = LitAll
              THEN [resources |-> ((LitAccountPrefix \o gen.accountID) :> "*"),
                    err |-> NoError]
              ELSE [resources |-> ((LitAccountPrefix \o scope) :> "*"),
                    err |-> NoError]

\* the resources map of a policy and the error, for one representative
\* service of a resource class and the scope token as the caller gave it
buildResources(gen, svc, scope) ==
    IF ToLower(scope) = LitAll
    THEN IF svc.ResourceScope = ResourceScopeZone
         THEN [resources |-> (LitZoneWildcard :> "*"), err |-> NoError]
         ELSE IF gen.accountID = <<>>
              THEN [resources |-> EmptyResources,
                    err |-> ErrAccountIDRequired(svc)]
              ELSE [resources |-> ((LitAccountPrefix \o gen.accountID) :> "*"),
                    err |-> NoError]
    ELSE IF svc.ResourceScope = ResourceScopeZone
         THEN [resources |-> ((LitZonePrefix \o scope) :> "*"), err |-> NoError]
         ELSE [resources |-> ((LitAccountPrefix \o scope) :> "*"),
               err |-> NoError]

\* deriveScope that tests a hint for "account" before it tests it for "zone"
RECURSIVE deriveScopeAccountFirst(_)
deriveScopeAccountFirst(scopes) ==
    IF Len(scopes) = 0 THEN ""
    ELSE IF Contains(Head(scopes), LitAccount) THEN "account"
    ELSE IF Contains(Head(scopes), LitZone) THEN "zone"
    ELSE deriveScopeAccountFirst(Tail(scopes))

\* class of a discovered permission group, from its scope hints in order;
\* the empty string when no hint names a class
RECURSIVE deriveScope(_)
deriveScope(scopes) ==
    IF Len(scopes) = 0 THEN ""
    ELSE IF Contains(Head(scopes), LitZone) THEN "zone"
    ELSE IF Contains(Head(scopes), LitAccount) THEN "account"
    ELSE deriveScope(Tail(scopes))

\* permGroupsOf that puts each service's identifiers in front of those
\* collected so far
RECURSIVE permGroupsOfPrepending(_, _)
permGroupsOfPrepending(group, level) ==
    IF Len(group) = 0 THEN <<>>
    ELSE LET filtered == filterPermissions(Head(group).Permissions, level)
         IN  permGroupsOfPrepending(Tail(group), level)
             \o [k \in 1..Len(filtered) |-> [ID |-> filtered[k].ID]]

\* permGroups built by the two inner loops of GenerateMulti: the filtered
\* identifiers of each service of a group, services in order
RECURSIVE permGroupsOf(_, _)
permGroupsOf(group, level) ==
    IF Len(group) = 0 THEN <<>>
    ELSE LET filtered == filterPermissions(Head(group).Permissions, level)
         IN  [k \in 1..Len(filtered) |-> [ID |-> filtered[k].ID]]
             \o permGroupsOf(Tail(group), level)

\* cloudflare.APITokenPolicies literal
APITokenPolicies(resources, permGroups) ==
    [Effect |-> "allow", Resources |-> resources,
     PermissionGroups |-> permGroups]

\* ------------------------------------------------------------------------
\* State
\* ------------------------------------------------------------------------

VARIABLES
    Services,   \* the package variable Services: key -> Service
    g,          \* the Generator all callers share
    calls,      \* per caller: the frame of its current call and its returns
    api         \* the requests the remote platform received, per caller

vars ==
    <<Services, g, calls, api>>

\* the callers of this behaviour
Callers ==
    DOMAIN calls

\* arguments of a call that takes none
NoArgs ==
    [services |-> <<>>, scope |-> <<>>, level |-> <<>>]

\* frame of a call that has not executed a statement yet: the arguments
\* and the zero values of the local variables.  lookups counts the reads of
\* Services the call has made, earlier holds what the caller's previous
\* calls returned.
NewCall(op, args, n, earlier) ==
    [op |-> op, n |-> n, args |-> args,
     pc |-> IF op = "GodMode" THEN "check" ELSE "level",
     level |-> <<>>, i |-> 0,
     svcs |-> <<>>, zoneSvcs |-> <<>>, accountSvcs |-> <<>>,
     perms |-> <<>>, zonePerms |-> <<>>, accountPerms |-> <<>>,
     policies |-> <<>>, tokenName |-> <<>>,
     lookups |-> 0,
     ret |-> [value |-> <<>>, err |-> NoError],
     earlier |-> earlier]

\* return statement: the frame is gone, the caller holds (value, err)
Return(c, value, err) ==
    [NewCall(c.op, c.args, c.n, c.earlier) EXCEPT
        !.pc = "done", !.lookups = c.lookups,
        !.ret = [value |-> value, err |-> err]]

\* ------------------------------------------------------------------------
\* Statements of GenerateMulti, as functions of the frame
\* ------------------------------------------------------------------------

\* checkLevel that lower-cases the level and rejects nothing
checkLevelLenient(c) ==
    [c EXCEPT !.level = ToLower(c.args.level), !.i = 1,
              !.pc = IF Len(c.args.services) = 0 THEN "group" ELSE "lookup"]

\* level = strings.ToLower(level); reject anything but "read" and "edit"
checkLevel(c) ==
    LET level == ToLower(c.args.level)
    IN  IF level /= LitRead /\ level /= LitEdit
        THEN Return(c, <<>>, ErrInvalidLevel(level))
        ELSE [c EXCEPT !.level = level, !.i = 1,
                       !.pc = IF Len(c.args.services) = 0
                              THEN "group" ELSE "lookup"]

\* lookupService that passes over a key the catalog does not have
lookupServiceSkipUnknown(c, catalog) ==
    LET s   == c.args.services[c.i]
        key == ToLower(TrimSpace(s))
        c1  == [c EXCEPT !.lookups = @ + 1]
        pc  == IF c.i = Len(c.args.services) THEN "group" ELSE "lookup"
    IN  IF key \notin DOMAIN catalog
        THEN [c1 EXCEPT !.i = @ + 1, !.pc = pc]
        ELSE LET svc == catalog[key]
             IN  IF Len(filterPermissions(svc.Permissions, c.level)) = 0
                 THEN Return(c1, <<>>, ErrUnsupportedLevel(svc, c.level))
                 ELSE [c1 EXCEPT !.svcs = Append(@, svc), !.i = @ + 1,
                                 !.pc = pc]

\* lookupService that lower-cases the requested string and keeps its blanks
lookupServiceUntrimmed(c, catalog) ==
    LET s   == c.args.services[c.i]
        key == ToLower(s)
        c1  == [c EXCEPT !.lookups = @ + 1]
    IN  IF key \notin DOMAIN catalog
        THEN Return(c1, <<>>, ErrUnknownService(s))
        ELSE LET svc == catalog[key]
             IN  IF Len(filterPermissions(svc.Permissions, c.level)) = 0
                 THEN Return(c1, <<>>, ErrUnsupportedLevel(svc, c.level))
                 ELSE [c1 EXCEPT !.svcs = Append(@, svc), !.i = @ + 1,
                                 !.pc = IF c.i = Len(c.args.services)
                                        THEN "group" ELSE "lookup"]

\* one iteration of the loop over the requested services
lookupService(c, catalog) ==
    LET s   == c.args.services[c.i]
        key == ToLower(TrimSpace(s))
        c1  == [c EXCEPT !.lookups = @ + 1]
    IN  IF key \notin DOMAIN catalog
        THEN Return(c1, <<>>, ErrUnknownService(s))
        ELSE LET svc == catalog[key]
             IN  IF Len(filterPermissions(svc.Permissions, c.level)) = 0
                 THEN Return(c1, <<>>, ErrUnsupportedLevel(svc, c.level))
                 ELSE [c1 EXCEPT !.svcs = Append(@, svc), !.i = @ + 1,
                                 !.pc = IF c.i = Len(c.args.services)
                                        THEN "group" ELSE "lookup"]

\* split the resolved services by resource scope, order kept
groupServices(c) ==
    [c EXCEPT
        !.zoneSvcs = SelectSeq(c.svcs,
            LAMBDA svc : svc.ResourceScope = ResourceScopeZone),
        !.accountSvcs = SelectSeq(c.svcs,
            LAMBDA svc : svc.ResourceScope /= ResourceScopeZone),
        !.pc = "zone"]

\* buildZonePolicy that emits one policy for each service of the zone group
buildZonePolicyPerService(c, gen) ==
    IF Len(c.zoneSvcs) > 0
    THEN LET r == buildResources(gen, c.zoneSvcs[1], c.args.scope)
         IN  IF r.err /= NoError
             THEN Return(c, <<>>, r.err)
             ELSE [c EXCEPT
                     !.policies = @ \o [k \in 1..Len(c.zoneSvcs) |->
                         APITokenPolicies(r.resources,
                             permGroupsOf(<<c.zoneSvcs[k]>>, c.level))],
                     !.pc = "account"]
    ELSE [c EXCEPT !.pc = "account"]

\* the policy of the zone group, when there is one
buildZonePolicy(c, gen) ==
    IF Len(c.zoneSvcs) > 0
    THEN LET r == buildResources(gen, c.zoneSvcs[1], c.args.scope)
         IN  IF r.err /= NoError
             THEN Return(c, <<>>, r.err)
             ELSE [c EXCEPT
                     !.policies = Append(@, APITokenPolicies(r.resources,
                                      permGroupsOf(c.zoneSvcs, c.level))),
                     !.pc = "account"]
    ELSE [c EXCEPT !.pc = "account"]

\* buildAccountPolicy that drops the error of buildResources and goes on
\* with the policies built so far
buildAccountPolicyIgnoringError(c, gen) ==
    IF Len(c.accountSvcs) > 0
    THEN LET r == buildResources(gen, c.accountSvcs[1], c.args.scope)
         IN  IF r.err /= NoError
             THEN [c EXCEPT !.pc = "name"]
             ELSE [c EXCEPT
                     !.policies = Append(@, APITokenPolicies(r.resources,
                                      permGroupsOf(c.accountSvcs, c.level))),
                     !.pc = "name"]
    ELSE [c EXCEPT !.pc = "name"]

\* the policy of the account group, when there is one
buildAccountPolicy(c, gen) ==
    IF Len(c.accountSvcs) > 0
    THEN LET r == buildResources(gen, c.accountSvcs[1], c.args.scope)
         IN  IF r.err /= NoError
             THEN Return(c, <<>>, r.err)
             ELSE [c EXCEPT
                     !.policies = Append(@, APITokenPolicies(r.resources,
                                      permGroupsOf(c.accountSvcs, c.level))),
                     !.pc = "name"]
    ELSE [c EXCEPT !.pc = "name"]

\* nameToken that joins the strings the caller passed
nameTokenRequested(c) ==
    [c EXCEPT
       !.tokenName = Join(c.args.services, LitDash) \o LitDash
                     \o c.args.scope \o LitDash \o c.level,
       !.pc = "create"]

\* nameToken that returns early, with no token and no error, when there is
\* no policy to submit
nameTokenNoPolicies(c) ==
    IF Len(c.policies) = 0
    THEN Return(c, <<>>, NoError)
    ELSE LET names == [k \in 1..Len(c.svcs) |-> c.svcs[k].Name]
         IN  [c EXCEPT
                !.tokenName = Join(names, LitDash) \o LitDash \o c.args.scope
                              \o LitDash \o c.level,
                !.pc = "create"]

\* fmt.Sprintf("%s-%s-%s", strings.Join(names, "-"), scope, level)
nameToken(c) ==
    LET names == [k \in 1..Len(c.svcs) |-> c.svcs[k].Name]
    IN  [c EXCEPT
           !.tokenName = Join(names, LitDash) \o LitDash \o c.args.scope
                         \o LitDash \o c.level,
           !.pc = "create"]

\* ------------------------------------------------------------------------
\* Statements of GodMode
\* ------------------------------------------------------------------------

\* checkAccountID that lets a Generator without account ID through
checkAccountIDSkipped(c, gen) ==
    [c EXCEPT !.pc = "fetch"]

\* god mode needs an account
checkAccountID(c, gen) ==
    IF gen.accountID = <<>>
    THEN Return(c, <<>>, ErrAccountIDRequiredGodMode)
    ELSE [c EXCEPT !.pc = "fetch"]

\* the discovery answered: either an error or the list of groups
fetched(c, resp) ==
    IF resp.ok
    THEN [c EXCEPT !.perms = resp.result, !.pc = "partition"]
    ELSE Return(c, <<>>, ErrFetchingPermissionGroups)

\* bucket that looks for "api token" in the name as spelled
RECURSIVE bucketCaseSensitive(_, _)
bucketCaseSensitive(perms, class) ==
    IF Len(perms) = 0 THEN <<>>
    ELSE LET p == Head(perms)
         IN  IF Contains(p.Name, LitApiToken)
             THEN bucketCaseSensitive(Tail(perms), class)
             ELSE IF deriveScope(p.Scopes) = class
                  THEN <<[ID |-> p.ID]>>
                       \o bucketCaseSensitive(Tail(perms), class)
                  ELSE bucketCaseSensitive(Tail(perms), class)

\* the loop over the discovered groups, for one class: groups that manage
\* API tokens are skipped, the others go to the bucket deriveScope names
RECURSIVE bucket(_, _)
bucket(perms, class) ==
    IF Len(perms) = 0 THEN <<>>
    ELSE LET p == Head(perms)
             nameLower == ToLower(p.Name)
         IN  IF Contains(nameLower, LitApiToken)
             THEN bucket(Tail(perms), class)
             ELSE IF deriveScope(p.Scopes) = class
                  THEN <<[ID |-> p.ID]>> \o bucket(Tail(perms), class)
                  ELSE bucket(Tail(perms), class)

partitionGroups(c) ==
    [c EXCEPT !.zonePerms = bucket(c.perms, "zone"),
              !.accountPerms = bucket(c.perms, "account"),
              !.pc = "assemble"]

\* assemblePolicies that emits both policies whatever the buckets hold
assemblePoliciesAlways(c, gen) ==
    [c EXCEPT !.policies =
                 <<APITokenPolicies(LitZoneWildcard :> "*", c.zonePerms),
                   APITokenPolicies((LitAccountPrefix \o gen.accountID) :> "*",
                                    c.accountPerms)>>,
              !.tokenName = LitGodmode,
              !.pc = "create"]

\* one wildcard policy per non-empty bucket
assemblePolicies(c, gen) ==
    LET zonePolicy ==
            IF Len(c.zonePerms) > 0
            THEN <<APITokenPolicies(LitZoneWildcard :> "*", c.zonePerms)>>
            ELSE <<>>
        accountPolicy ==
            IF Len(c.accountPerms) > 0
            THEN <<APITokenPolicies((LitAccountPrefix \o gen.accountID) :> "*",
                                    c.accountPerms)>>
            ELSE <<>>
    IN  [c EXCEPT !.policies = zonePolicy \o accountPolicy,
                  !.tokenName = LitGodmode,
                  !.pc = "create"]

\* ------------------------------------------------------------------------
\* createToken
\* ------------------------------------------------------------------------

\* value of the token the platform mints
TokenValue ==
    <<"t","o","k">>

\* cloudflare.APIToken literal sent to CreateAPIToken, with the number of
\* the call that sent it
APIToken(c) ==
    [n |-> c.n, Name |-> c.tokenName, Policies |-> c.policies]

\* the platform answered the creation request
created(c, ok) ==
    IF ok
    THEN Return(c, TokenValue, NoError)
    ELSE Return(c, <<>>, ErrCreatingToken)

\* ------------------------------------------------------------------------
\* A call run from its first statement to its last with no other caller
\* ------------------------------------------------------------------------

\* the statement a frame is at, executed; resp is the answer of the
\* discovery endpoint, used by the fetch alone
StepAlone(c, catalog, gen, resp) ==
    CASE c.pc = "level"     -> checkLevel(c)
      [] c.pc = "lookup"    -> lookupService(c, catalog)
      [] c.pc = "group"     -> groupServices(c)
      [] c.pc = "zone"      -> buildZonePolicy(c, gen)
      [] c.pc = "account"   -> buildAccountPolicy(c, gen)
      [] c.pc = "name"      -> nameToken(c)
      [] c.pc = "check"     -> checkAccountID(c, gen)
      [] c.pc = "fetch"     -> fetched(c, resp)
      [] c.pc = "partition" -> partitionGroups(c)
      [] c.pc = "assemble"  -> assemblePolicies(c, gen)

\* the frame when the call is about to send its CreateAPIToken request, or
\* when it has returned without sending one
RECURSIVE RunAlone(_, _, _, _)
RunAlone(c, catalog, gen, resp) ==
    IF c.pc \in {"create", "done"}
    THEN c
    ELSE RunAlone(StepAlone(c, catalog, gen, resp), catalog, gen, resp)

\* ------------------------------------------------------------------------
\* Inputs of the exploration
\* ------------------------------------------------------------------------

\* "dns"
KeyDns ==
    <<"d","n","s">>

\* "zone"
KeyZone ==
    <<"z","o","n","e">>

\* "cache"
KeyCache ==
    <<"c","a","c","h","e">>

\* "workers"
KeyWorkers ==
    <<"w","o","r","k","e","r","s">>

\* "KV"
KeyKvUpper ==
    <<"K","V">>

\* " Dns "
KeyDnsPadded ==
    <<" ","D","n","s"," ">>

\* "bogus"
KeyBogus ==
    <<"b","o","g","u","s">>

\* "nope"
KeyNope ==
    <<"n","o","p","e">>

\* "READ"
LevelReadUpper ==
    <<"R","E","A","D">>

\* "write"
LevelWrite ==
    <<"w","r","i","t","e">>

\* "All"
ScopeAllMixed ==
    <<"A","l","l">>

\* "Z1 ": an identifier with a capital and a trailing blank
ScopeId ==
    <<"Z","1"," ">>

\* "a1"
AccountId ==
    <<"a","1">>

\* "z9"
ZoneId ==
    <<"z","9">>

\* "DNS Write"
NameDnsWrite ==
    <<"D","N","S"," ","W","r","i","t","e">>

\* "API Tokens Write"
NameApiTokensWrite ==
    <<"A","P","I"," ","T","o","k","e","n","s"," ","W","r","i","t","e">>

\* "zone"
HintZone ==
    <<"z","o","n","e">>

\* "account"
HintAccount ==
    <<"a","c","c","o","u","n","t">>

\* "account.zone"
HintAccountZone ==
    <<"a","c","c","o","u","n","t",".","z","o","n","e">>

\* "user"
HintUser ==
    <<"u","s","e","r">>

\* keys tried in requests of several services: zone-scoped, account-scoped,
\* one without read permission, one spelled with capitals, and two that the
\* catalog does not have
MultiKeys ==
    {KeyDns, KeyZone, KeyCache, KeyWorkers, KeyKvUpper, KeyBogus, KeyNope}

\* keys tried in requests of one service: every key of the catalog too, and
\* one spelled with capitals and blanks around it
SingleKeys ==
    DOMAIN ServiceTable \cup MultiKeys \cup {KeyDnsPadded}

ServiceLists ==
    {<<>>} \cup {<<k>> : k \in SingleKeys}
           \cup UNION {[1..n -> MultiKeys] : n \in 2..MaxServices}

Levels ==
    {LitRead, LitEdit, LevelReadUpper, LevelWrite}

Scopes ==
    {LitAll, ScopeAllMixed, ScopeId}

\* Generator values New can build: the account and the default zone are
\* each configured or empty
Generators ==
    [apiToken : {"bootstrap"}, accountID : {<<>>, AccountId},
     zoneID : {<<>>, ZoneId}]

Requests ==
    [op : {"GenerateMulti"},
     args : [services : ServiceLists, scope : Scopes, level : Levels]]
    \cup {[op |-> "GodMode", args |-> NoArgs]}

\* identifiers of the discovered groups, by position in the answer
GroupIDs ==
    <<"pg1", "pg2", "pg3", "pg4", "pg5">>

GroupShapes ==
    [Name : {NameDnsWrite, NameApiTokensWrite},
     Scopes : {<<>>, <<HintZone>>, <<HintAccountZone>>,
               <<HintAccount, HintZone>>, <<HintUser, HintZone>>,
               <<HintUser>>}]

\* permissionGroup values of an answer whose groups have the given shapes
Discovery(shapes) ==
    [k \in 1..Len(shapes) |->
        [ID |-> GroupIDs[k], Name |-> shapes[k].Name,
         Scopes |-> shapes[k].Scopes]]

Discoveries ==
    {Discovery(shapes) :
        shapes \in UNION {[1..n -> GroupShapes] : n \in 0..MaxGroups}}

\* requests tried when the caller repeats its call
AgainRequests ==
    [op : {"GenerateMulti"},
     args : [services : UNION {[1..n -> {KeyDns, KeyCache, KeyWorkers,
                                         KeyBogus}] : n \in 0..MaxServices},
             scope : {LitAll, ScopeId},
             level : {LitRead, LevelReadUpper, LitEdit, LevelWrite}]]

\* requests and answers tried when several callers share the Generator
ConcRequests ==
    {[op |-> "GodMode", args |-> NoArgs],
     [op |-> "GenerateMulti",
      args |-> [services |-> <<KeyDns, KeyWorkers>>, scope |-> LitAll,
                level |-> LitEdit]],
     [op |-> "GenerateMulti",
      args |-> [services |-> <<KeyKvUpper, KeyDnsPadded>>, scope |-> ScopeId,
                level |-> LevelReadUpper]],
     [op |-> "GenerateMulti",
      args |-> [services |-> <<KeyCache>>, scope |-> LitAll,
                level |-> LitRead]]}

ConcDiscoveries ==
    {Discovery(<<[Name |-> NameDnsWrite, Scopes |-> <<HintAccountZone>>],
                 [Name |-> NameApiTokensWrite, Scopes |-> <<HintAccount>>]>>),
     Discovery(<<[Name |-> NameDnsWrite, Scopes |-> <<HintAccount>>]>>)}

\* what the discovery endpoint may answer: an error, or a list of groups
FetchAnswers ==
    {[ok |-> FALSE, result |-> <<>>]} \cup
    {[ok |-> TRUE, result |-> d] :
        d \in IF Cardinality(Callers) = 1 THEN Discoveries
              ELSE ConcDiscoveries}

\* ------------------------------------------------------------------------
\* Initial states
\* ------------------------------------------------------------------------

\* one caller, any request
Init ==
    /\ Services = ServiceTable
    /\ g \in Generators
    /\ calls \in {[p \in {1} |-> NewCall(r.op, r.args, 1, <<>>)] :
                     r \in Requests}
    /\ api = [p \in {1} |-> [created |-> <<>>, fetched |-> <<>>]]

\* one caller, a GenerateMulti request it will repeat
InitAgain ==
    /\ Services = ServiceTable
    /\ g \in {gen \in Generators : gen.zoneID = <<>>}
    /\ calls \in {[p \in {1} |-> NewCall(r.op, r.args, 1, <<>>)] :
                     r \in AgainRequests}
    /\ api = [p \in {1} |-> [created |-> <<>>, fetched |-> <<>>]]

\* several callers on one Generator, which has a default zone
InitConc ==
    /\ Services = ServiceTable
    /\ g \in {gen \in Generators : gen.zoneID = ZoneId}
    /\ calls \in [1..NumCallers ->
                    {NewCall(r.op, r.args, 1, <<>>) : r \in ConcRequests}]
    /\ api = [p \in 1..NumCallers |-> [created |-> <<>>, fetched |-> <<>>]]

\* ------------------------------------------------------------------------
\* Steps
\* ------------------------------------------------------------------------

CheckLevel(p) ==
    /\ calls[p].pc = "level"
    /\ calls' = [calls EXCEPT ![p] = checkLevel(calls[p])]
    /\ UNCHANGED <<Services, g, api>>

\* LookupService that keeps the filtered permission list in the catalog
\* entry it has just read
LookupServiceCaching(p) ==
    /\ calls[p].pc = "lookup"
    /\ calls' = [calls EXCEPT ![p] = lookupService(calls[p], Services)]
    /\ LET key == ToLower(TrimSpace(calls[p].args.services[calls[p].i]))
       IN  Services' =
             IF key \in DOMAIN Services
             THEN [Services EXCEPT ![key].Permissions =
                      filterPermissions(@, calls[p].level)]
             ELSE Services
    /\ UNCHANGED <<g, api>>

LookupService(p) ==
    /\ calls[p].pc = "lookup"
    /\ calls' = [calls EXCEPT ![p] = lookupService(calls[p], Services)]
    /\ UNCHANGED <<Services, g, api>>

GroupServices(p) ==
    /\ calls[p].pc = "group"
    /\ calls' = [calls EXCEPT ![p] = groupServices(calls[p])]
    /\ UNCHANGED <<Services, g, api>>

BuildZonePolicy(p) ==
    /\ calls[p].pc = "zone"
    /\ calls' = [calls EXCEPT ![p] = buildZonePolicy(calls[p], g)]
    /\ UNCHANGED <<Services, g, api>>

BuildAccountPolicy(p) ==
    /\ calls[p].pc = "account"
    /\ calls' = [calls EXCEPT ![p] = buildAccountPolicy(calls[p], g)]
    /\ UNCHANGED <<Services, g, api>>

NameToken(p) ==
    /\ calls[p].pc = "name"
    /\ calls' = [calls EXCEPT ![p] = nameToken(calls[p])]
    /\ UNCHANGED <<Services, g, api>>

CheckAccountID(p) ==
    /\ calls[p].pc = "check"
    /\ calls' = [calls EXCEPT ![p] = checkAccountID(calls[p], g)]
    /\ UNCHANGED <<Services, g, api>>

\* fetchPermissionGroups: one GET, answered by the platform
FetchPermissionGroups(p) ==
    /\ calls[p].pc = "fetch"
    /\ \E resp \in FetchAnswers :
          /\ calls' = [calls EXCEPT ![p] = fetched(calls[p], resp)]
          /\ api' = [api EXCEPT ![p].fetched =
                        Append(@, [n |-> calls[p].n, token |-> g.apiToken,
                                   resp |-> resp])]
    /\ UNCHANGED <<Services, g>>

PartitionGroups(p) ==
    /\ calls[p].pc = "partition"
    /\ calls' = [calls EXCEPT ![p] = partitionGroups(calls[p])]
    /\ UNCHANGED <<Services, g, api>>

AssemblePolicies(p) ==
    /\ calls[p].pc = "assemble"
    /\ calls' = [calls EXCEPT ![p] = assemblePolicies(calls[p], g)]
    /\ UNCHANGED <<Services, g, api>>

\* createToken: one CreateAPIToken request, answered by the platform
CreateToken(p) ==
    /\ calls[p].pc = "create"
    /\ \E ok \in BOOLEAN :
          calls' = [calls EXCEPT ![p] = created(calls[p], ok)]
    /\ api' = [api EXCEPT ![p].created = Append(@, APIToken(calls[p]))]
    /\ UNCHANGED <<Services, g>>

\* the caller makes the same GenerateMulti call once more
CallAgain(p) ==
    /\ calls[p].pc = "done"
    /\ calls[p].op = "GenerateMulti"
    /\ calls[p].n < MaxCalls
    /\ calls' = [calls EXCEPT ![p] =
                    NewCall(@.op, @.args, @.n + 1, Append(@.earlier, @.ret))]
    /\ UNCHANGED <<Services, g, api>>

Next ==
    \E p \in Callers :
        \/ CheckLevel(p)
        \/ LookupService(p)
        \/ GroupServices(p)
        \/ BuildZonePolicy(p)
        \/ BuildAccountPolicy(p)
        \/ NameToken(p)
        \/ CheckAccountID(p)
        \/ FetchPermissionGroups(p)
        \/ PartitionGroups(p)
        \/ AssemblePolicies(p)
        \/ CreateToken(p)

\* a single caller, a single call
Spec ==
    Init /\ [][Next]_vars

\* a caller that repeats its call
NextAgain ==
    \E p \in Callers :
        \/ CheckLevel(p)
        \/ LookupService(p)
        \/ GroupServices(p)
        \/ BuildZonePolicy(p)
        \/ BuildAccountPolicy(p)
        \/ NameToken(p)
        \/ CreateToken(p)
        \/ CallAgain(p)

\* a single caller, the same GenerateMulti call several times in a row
SpecAgain ==
    InitAgain /\ [][NextAgain]_vars

\* several callers interleaved statement by statement
SpecConc ==
    InitConc /\ [][Next]_vars

\* ------------------------------------------------------------------------
\* Vocabulary of the properties
\* ------------------------------------------------------------------------

\* the CreateAPIToken requests caller p sent during its call number n
CreatedBy(p, n) ==
    SelectSeq(api[p].created, LAMBDA t : t.n = n)

\* the discovery answers caller p received during its call number n
FetchedBy(p, n) ==
    SelectSeq(api[p].fetched, LAMBDA f : f.n = n)

\* caller p's current call is a GenerateMulti call that has returned
ReturnedGenerateMulti(p) ==
    calls[p].op = "GenerateMulti" /\ calls[p].pc = "done"

\* caller p's current call is a GodMode call that has returned
ReturnedGodMode(p) ==
    calls[p].op = "GodMode" /\ calls[p].pc = "done"

\* catalog key a requested string is looked up under
KeyOf(s) ==
    ToLower(TrimSpace(s))

\* identifiers of a list of permission groups of a policy
IDsOf(permGroups) ==
    [k \in 1..Len(permGroups) |-> permGroups[k].ID]

\* the errors GenerateMulti and GodMode raise before any request is sent
ValidationErrors ==
    {"invalid permission level", "unknown service", "does not support level",
     "account_id required for account-scoped service",
     "account_id required for godmode"}

\* ------------------------------------------------------------------------
\* C1
\* ------------------------------------------------------------------------

\* caller p's returned call is GenerateMulti([k], "all", L) with k a key of
\* the catalog and L one of read, edit
IsSingleAllCall(p) ==
    /\ ReturnedGenerateMulti(p)
    /\ Len(calls[p].args.services) = 1
    /\ calls[p].args.services[1] \in DOMAIN Services
    /\ calls[p].args.scope = LitAll
    /\ calls[p].args.level \in {LitRead, LitEdit}

\* the call submitted exactly one policy, whose permissionGroups is not empty
SubmittedOnePolicy(p) ==
    /\ Len(CreatedBy(p, calls[p].n)) = 1
    /\ Len(CreatedBy(p, calls[p].n)[1].Policies) = 1
    /\ Len(CreatedBy(p, calls[p].n)[1].Policies[1].PermissionGroups) > 0

\* the level is not among the levels ServiceLevels reports for the service
LevelNotInServiceLevels(p) ==
    LET levels == ServiceLevels(Services[calls[p].args.services[1]])
    IN  \A k \in 1..Len(levels) : levels[k] /= calls[p].args.level

\* C1 as claimed: GenerateMulti([k], "all", L) for a catalog key k and L in
\* {read, edit} either submits exactly one policy with a non-empty
\* permissionGroups or fails with the unsupported-level error, and it fails
\* with that error iff L is not in ServiceLevels(Services[k]).
C1_TwoOutcomes ==
    \A p \in Callers :
        IsSingleAllCall(p) =>
            /\ \/ SubmittedOnePolicy(p)
               \/ calls[p].ret.err.kind = "does not support level"
            /\ calls[p].ret.err.kind = "does not support level"
                   <=> LevelNotInServiceLevels(p)

\* C1 amended: there is a third outcome, the missing-account-id error, which
\* happens exactly when the service is account-scoped, supports the level and
\* the Generator has no account ID; the call submits exactly one policy with
\* a non-empty permissionGroups in every other supported case, and fails with
\* the unsupported-level error iff L is not in ServiceLevels(Services[k]).
C1_ThreeOutcomes ==
    \A p \in Callers :
        IsSingleAllCall(p) =>
            LET svc == Services[calls[p].args.services[1]]
                kind == calls[p].ret.err.kind
                noAccount == /\ svc.ResourceScope = ResourceScopeAccount
                             /\ g.accountID = <<>>
                             /\ ~LevelNotInServiceLevels(p)
            IN  /\ kind = "does not support level" <=> LevelNotInServiceLevels(p)
                /\ kind = "account_id required for account-scoped service"
                       <=> noAccount
                /\ SubmittedOnePolicy(p)
                       <=> (~LevelNotInServiceLevels(p) /\ ~noAccount)
                /\ (kind \in ValidationErrors) => CreatedBy(p, calls[p].n) = <<>>

\* an account-scoped service resolved at read with scope "all"
C1_Witness ==
    \E p \in Callers :
        /\ IsSingleAllCall(p)
        /\ calls[p].args.level = LitRead
        /\ Services[calls[p].args.services[1]].ResourceScope
               = ResourceScopeAccount
        /\ SubmittedOnePolicy(p)

\* ------------------------------------------------------------------------
\* C2
\* ------------------------------------------------------------------------

\* the level a request asks for, lower-cased
LevelOf(p) ==
    ToLower(calls[p].args.level)

\* a service supports a level: ServiceLevels lists it
Supports(svc, level) ==
    \E k \in 1..Len(ServiceLevels(svc)) : ServiceLevels(svc)[k] = level

\* every requested string names a service of the catalog
AllKnown(p) ==
    \A k \in 1..Len(calls[p].args.services) :
        KeyOf(calls[p].args.services[k]) \in DOMAIN Services

\* some requested service is of the given resource class
Requests_Class(p, class) ==
    \E k \in 1..Len(calls[p].args.services) :
        /\ KeyOf(calls[p].args.services[k]) \in DOMAIN Services
        /\ Services[KeyOf(calls[p].args.services[k])].ResourceScope = class

\* level-filtered identifiers, in catalog order, of the requested services
\* of one resource class, services in request order
RECURSIVE ExpectedIDs(_, _, _)
ExpectedIDs(requested, class, level) ==
    IF Len(requested) = 0 THEN <<>>
    ELSE LET svc == Services[KeyOf(Head(requested))]
         IN  (IF svc.ResourceScope = class
              THEN IDsOf(filterPermissions(svc.Permissions, level))
              ELSE <<>>)
             \o ExpectedIDs(Tail(requested), class, level)

\* set of the elements of a sequence
Range(seq) ==
    {seq[k] : k \in 1..Len(seq)}

\* C2: in every GenerateMulti call that reaches token creation, the policy
\* of each resource class lists the level-filtered identifiers of the
\* requested services of that class, services in request order, identifiers
\* in catalog order and unmodified; a request of one zone-scoped and one
\* account-scoped service gives two policies that together hold exactly the
\* filtered identifiers of both; ["dns","zone"] at edit gives one policy
\* with the identifiers of dns followed by those of zone.
C2_Concatenation ==
    \A p \in Callers :
        (ReturnedGenerateMulti(p) /\ CreatedBy(p, calls[p].n) /= <<>>) =>
            LET requested == calls[p].args.services
                policies == CreatedBy(p, calls[p].n)[1].Policies
                ids == [k \in 1..Len(policies) |->
                           IDsOf(policies[k].PermissionGroups)]
                zoneIDs == ExpectedIDs(requested, ResourceScopeZone, LevelOf(p))
                accountIDs ==
                    ExpectedIDs(requested, ResourceScopeAccount, LevelOf(p))
            IN  /\ ids = (IF Requests_Class(p, ResourceScopeZone)
                          THEN <<zoneIDs>> ELSE <<>>)
                         \o (IF Requests_Class(p, ResourceScopeAccount)
                             THEN <<accountIDs>> ELSE <<>>)
                /\ (/\ Len(requested) = 2
                    /\ Requests_Class(p, ResourceScopeZone)
                    /\ Requests_Class(p, ResourceScopeAccount))
                   => /\ Len(policies) = 2
                      /\ Range(ids[1]) \cup Range(ids[2])
                           = Range(zoneIDs) \cup Range(accountIDs)
                /\ (requested = <<KeyDns, KeyZone>> /\ LevelOf(p) = LitEdit)
                   => ids = << <<"82e64a83756745bbbb1c9c2701bf816b",
                                 "4755a26eedb94da69e1066d98aa820be",
                                 "c8fed203ed3043cba015a93ad1616f1f",
                                 "3030687196b94b638145a3953da2b699">> >>

\* ["dns","zone"] at edit reached token creation
C2_Witness ==
    \E p \in Callers :
        /\ ReturnedGenerateMulti(p)
        /\ calls[p].args.services = <<KeyDns, KeyZone>>
        /\ calls[p].args.level = LitEdit
        /\ Len(CreatedBy(p, calls[p].n)) = 1
        /\ Len(CreatedBy(p, calls[p].n)[1].Policies[1].PermissionGroups) = 4

\* ------------------------------------------------------------------------
\* C3
\* ------------------------------------------------------------------------

\* positions of the requested strings that name no service
UnknownAt(p) ==
    {k \in 1..Len(calls[p].args.services) :
        KeyOf(calls[p].args.services[k]) \notin DOMAIN Services}

\* position of the first requested string that names no service
FirstUnknown(p) ==
    CHOOSE k \in UnknownAt(p) : \A m \in UnknownAt(p) : k <= m

\* C3 as claimed: with a valid level and at least one unknown key in the
\* request, GenerateMulti fails with the unknown-service error naming the
\* first unknown key, whatever the other keys are.
C3_FirstUnknownKey ==
    \A p \in Callers :
        (/\ ReturnedGenerateMulti(p)
         /\ LevelOf(p) \in ValidLevels
         /\ UnknownAt(p) /= {}) =>
            calls[p].ret.err
                = ErrUnknownService(calls[p].args.services[FirstUnknown(p)])

\* C3 amended: with a valid level and at least one unknown key in the
\* request, GenerateMulti fails with the unknown-service error naming the
\* first unknown key, provided every key requested before it supports the
\* level; no request is sent.
C3_FirstUnknownKeyAfterSupported ==
    \A p \in Callers :
        (/\ ReturnedGenerateMulti(p)
         /\ LevelOf(p) \in ValidLevels
         /\ UnknownAt(p) /= {}
         /\ \A k \in 1..(FirstUnknown(p) - 1) :
               Supports(Services[KeyOf(calls[p].args.services[k])],
                        LevelOf(p))) =>
            /\ calls[p].ret.err
                 = ErrUnknownService(calls[p].args.services[FirstUnknown(p)])
            /\ calls[p].ret.value = <<>>
            /\ CreatedBy(p, calls[p].n) = <<>>

\* an unknown key behind a known one was reported
C3_Witness ==
    \E p \in Callers :
        /\ ReturnedGenerateMulti(p)
        /\ Len(calls[p].args.services) >= 2
        /\ UnknownAt(p) /= {}
        /\ FirstUnknown(p) = 2
        /\ calls[p].ret.err.kind = "unknown service"
        /\ calls[p].ret.err.args = <<calls[p].args.services[2]>>

\* ------------------------------------------------------------------------
\* C4
\* ------------------------------------------------------------------------

\* C4: a call whose level, lower-cased, is neither "read" nor "edit" never
\* reads the catalog and returns the invalid-level error, whatever the
\* services, the scope and the Generator are.
C4_InvalidLevelFirst ==
    \A p \in Callers :
        (calls[p].op = "GenerateMulti" /\ LevelOf(p) \notin {LitRead, LitEdit})
            => /\ calls[p].lookups = 0
               /\ calls[p].pc \in {"level", "done"}
               /\ calls[p].pc = "done" =>
                    /\ calls[p].ret.err = ErrInvalidLevel(LevelOf(p))
                    /\ calls[p].ret.value = <<>>
                    /\ CreatedBy(p, calls[p].n) = <<>>

\* an invalid level was rejected in a request that also names an unknown key
C4_Witness ==
    \E p \in Callers :
        /\ ReturnedGenerateMulti(p)
        /\ calls[p].args.level = LevelWrite
        /\ UnknownAt(p) /= {}
        /\ calls[p].ret.err.kind = "invalid permission level"

\* ------------------------------------------------------------------------
\* C5
\* ------------------------------------------------------------------------

\* valid level, every requested key known and supported at the level
IsResolvable(p) ==
    /\ LevelOf(p) \in ValidLevels
    /\ AllKnown(p)
    /\ \A k \in 1..Len(calls[p].args.services) :
          Supports(Services[KeyOf(calls[p].args.services[k])], LevelOf(p))

\* scope "all" in any case, an account-scoped service, no account ID
NeedsMissingAccountID(p) ==
    /\ ToLower(calls[p].args.scope) = LitAll
    /\ Requests_Class(p, ResourceScopeAccount)
    /\ g.accountID = <<>>

\* C5: a resolvable GenerateMulti request fails with the missing-account-id
\* error exactly when the scope is "all" in any case, an account-scoped
\* service is requested and the Generator has no account ID.
C5_MissingAccountID ==
    \A p \in Callers :
        (ReturnedGenerateMulti(p) /\ IsResolvable(p)) =>
            (calls[p].ret.err.kind
                 = "account_id required for account-scoped service"
             <=> NeedsMissingAccountID(p))

\* GenerateMulti(["workers"], "all", "edit") failed for want of an account ID
C5_Witness ==
    \E p \in Callers :
        /\ ReturnedGenerateMulti(p)
        /\ calls[p].args
             = [services |-> <<KeyWorkers>>, scope |-> LitAll,
                level |-> LitEdit]
        /\ g.accountID = <<>>
        /\ calls[p].ret.err.kind
             = "account_id required for account-scoped service"

\* ------------------------------------------------------------------------
\* C6
\* ------------------------------------------------------------------------

\* every local check of caller p's current call passes
PassesValidation(p) ==
    IF calls[p].op = "GenerateMulti"
    THEN IsResolvable(p) /\ ~NeedsMissingAccountID(p)
    ELSE /\ g.accountID /= <<>>
         /\ Len(FetchedBy(p, calls[p].n)) = 1
         /\ FetchedBy(p, calls[p].n)[1].resp.ok

\* C6: a call of GenerateMulti or GodMode sends at most one CreateAPIToken
\* request, sends it only when every local check has passed, and does not
\* send it again when the platform rejects it; a call that returns the
\* invalid-level, unknown-service, unsupported-level or missing-account-id
\* error has sent no request and so submitted no policy.
C6_CreateAtMostOnce ==
    \A p \in Callers :
        LET sent == CreatedBy(p, calls[p].n)
            kind == calls[p].ret.err.kind
        IN  /\ Len(sent) <= 1
            /\ sent /= <<>> =>
                  /\ PassesValidation(p)
                  /\ calls[p].pc = "done"
                  /\ kind \in {"nil", "creating token"}
            /\ (calls[p].pc = "done" /\ kind \in ValidationErrors) =>
                  sent = <<>>
            /\ (calls[p].pc = "done" /\ kind \in {"nil", "creating token"}) =>
                  Len(sent) = 1

\* the account group of a mixed request failed after the zone group passed
C6_Witness ==
    \E p \in Callers :
        /\ ReturnedGenerateMulti(p)
        /\ calls[p].args.services = <<KeyDns, KeyWorkers>>
        /\ ToLower(calls[p].args.scope) = LitAll
        /\ calls[p].ret.err.kind
             = "account_id required for account-scoped service"
        /\ api[p].created = <<>>

\* ------------------------------------------------------------------------
\* C7
\* ------------------------------------------------------------------------

\* identifiers that occur in the policies of a CreateAPIToken request
SubmittedIDs(token) ==
    UNION {Range(IDsOf(token.Policies[k].PermissionGroups)) :
              k \in 1..Len(token.Policies)}

\* a discovered group manages API tokens, going by its name
ManagesTokens(group) ==
    Contains(ToLower(group.Name), LitApiToken)

\* C7: whatever groups the discovery returns, a group whose name contains
\* "api token" in any case has its identifier in no policy GodMode submits,
\* whatever its scope hints are.
C7_NoTokenManagement ==
    \A p \in Callers :
        calls[p].op = "GodMode" =>
            \A j \in 1..Len(FetchedBy(p, calls[p].n)) :
            \A t \in 1..Len(CreatedBy(p, calls[p].n)) :
                LET discovered == FetchedBy(p, calls[p].n)[j].resp.result
                IN  \A k \in 1..Len(discovered) :
                        ManagesTokens(discovered[k]) =>
                            discovered[k].ID
                                \notin SubmittedIDs(CreatedBy(p, calls[p].n)[t])

\* GodMode submitted a policy although a zone-hinted group, left out of it,
\* manages API tokens
C7_Witness ==
    \E p \in Callers :
        /\ ReturnedGodMode(p)
        /\ Len(api[p].created) = 1
        /\ SubmittedIDs(api[p].created[1]) /= {}
        /\ \E k \in 1..Len(api[p].fetched[1].resp.result) :
              /\ ManagesTokens(api[p].fetched[1].resp.result[k])
              /\ api[p].fetched[1].resp.result[k].Scopes = <<HintZone>>

\* ------------------------------------------------------------------------
\* C8
\* ------------------------------------------------------------------------

\* C8: GodMode on a Generator without account ID asks the platform nothing,
\* neither for the permission groups nor for a token, and returns the
\* missing-account-id error.
C8_GodModeNeedsAccount ==
    \A p \in Callers :
        (calls[p].op = "GodMode" /\ g.accountID = <<>>) =>
            /\ api[p].fetched = <<>>
            /\ api[p].created = <<>>
            /\ calls[p].pc \in {"check", "done"}
            /\ calls[p].pc = "done" =>
                  /\ calls[p].ret.err = ErrAccountIDRequiredGodMode
                  /\ calls[p].ret.value = <<>>

\* GodMode returned on a Generator without account ID
C8_Witness ==
    \E p \in Callers :
        /\ ReturnedGodMode(p)
        /\ g.accountID = <<>>
        /\ calls[p].ret.err.kind = "account_id required for godmode"

\* ------------------------------------------------------------------------
\* C9
\* ------------------------------------------------------------------------

\* name and policies of the CreateAPIToken requests of a call
Submitted(p, n) ==
    [k \in 1..Len(CreatedBy(p, n)) |->
        [Name |-> CreatedBy(p, n)[k].Name,
         Policies |-> CreatedBy(p, n)[k].Policies]]

\* caller p's call has returned and repeats the call before it: both sent
\* the same name and the same policies, or both failed a local check with
\* the same error
SameAsCallBefore(p) ==
    (calls[p].pc = "done" /\ calls[p].n >= 2) =>
        LET before == calls[p].earlier[calls[p].n - 1]
        IN  /\ Submitted(p, calls[p].n) = Submitted(p, calls[p].n - 1)
            /\ (calls[p].ret.err.kind \in ValidationErrors
                \/ before.err.kind \in ValidationErrors)
               => calls[p].ret = before

\* C9: a GenerateMulti call repeated with the same services, scope, level
\* and Generator submits the same policies in the same order under the same
\* name, or fails the same way; no step of a call changes the catalog or the
\* Generator.
C9_Idempotent ==
    /\ [](\A p \in Callers : SameAsCallBefore(p))
    /\ [][Services' = Services /\ g' = g]_vars

\* a mixed request was submitted twice, with two policies each time
C9_Witness ==
    \E p \in Callers :
        /\ ReturnedGenerateMulti(p)
        /\ calls[p].n = 2
        /\ Len(Submitted(p, 2)) = 1
        /\ Len(Submitted(p, 2)[1].Policies) = 2
        /\ Submitted(p, 1) = Submitted(p, 2)

\* ------------------------------------------------------------------------
\* C10
\* ------------------------------------------------------------------------

\* the answer the discovery endpoint gave to caller p's call, if it gave one
AnswerTo(p) ==
    IF FetchedBy(p, calls[p].n) /= <<>>
    THEN FetchedBy(p, calls[p].n)[1].resp
    ELSE [ok |-> FALSE, result |-> <<>>]

\* caller p's call, run alone on the catalog as written in the source
Alone(p) ==
    RunAlone(NewCall(calls[p].op, calls[p].args, calls[p].n, <<>>),
             ServiceTable, g, AnswerTo(p))

\* caller p's call is sending or has sent what it sends when run alone, and
\* fails a local check exactly as it does when run alone
SameAsAlone(p) ==
    /\ calls[p].pc = "create" =>
          /\ Alone(p).pc = "create"
          /\ calls[p].tokenName = Alone(p).tokenName
          /\ calls[p].policies = Alone(p).policies
    /\ calls[p].pc = "done" =>
          IF Alone(p).pc = "create"
          THEN /\ Submitted(p, calls[p].n)
                    = <<[Name |-> Alone(p).tokenName,
                         Policies |-> Alone(p).policies]>>
               /\ calls[p].ret.err.kind \in {"nil", "creating token"}
          ELSE /\ Submitted(p, calls[p].n) = <<>>
               /\ calls[p].ret = Alone(p).ret

\* C10: when several callers run GenerateMulti and GodMode on one Generator
\* at the same time, statement by statement in any order, no step changes
\* the catalog or the Generator, and every call sends the name and the
\* policies it sends when it runs alone.
C10_ConcurrentCallsIndependent ==
    /\ [](\A p \in Callers : SameAsAlone(p))
    /\ [][Services' = Services /\ g' = g]_vars

\* a GenerateMulti call and a GodMode call on the same Generator both sent
\* their request
C10_Witness ==
    \E p, q \in Callers :
        /\ ReturnedGenerateMulti(p)
        /\ ReturnedGodMode(q)
        /\ Len(api[p].created) = 1
        /\ Len(api[p].created[1].Policies) = 2
        /\ Len(api[q].created) = 1
        /\ Len(api[q].created[1].Policies) >= 1

\* ------------------------------------------------------------------------
\* C11
\* ------------------------------------------------------------------------

\* caller p's returned call ended as the frame ref ends: it sent the name
\* and the policies ref is about to send, or it returned what ref returned
\* without sending anything
OutcomeMatches(p, ref) ==
    IF ref.pc = "create"
    THEN /\ Submitted(p, calls[p].n)
              = <<[Name |-> ref.tokenName, Policies |-> ref.policies]>>
         /\ calls[p].ret.err.kind \in {"nil", "creating token"}
    ELSE /\ Submitted(p, calls[p].n) = <<>>
         /\ calls[p].ret = ref.ret

\* the requested strings, each one that names a service replaced by the
\* catalog key of that service
WithCatalogKeys(requested) ==
    [k \in 1..Len(requested) |->
        IF KeyOf(requested[k]) \in DOMAIN Services
        THEN KeyOf(requested[k]) ELSE requested[k]]

\* the discovery answer of a call that asks for none
NoAnswer ==
    [ok |-> FALSE, result |-> <<>>]

\* C11: a GenerateMulti call ends exactly as the same call with every
\* requested string that names a service (after trimming blanks and
\* lower-casing) replaced by the catalog key: same policies, same name, same
\* error; a looked-up string that names no service that way is reported as
\* unknown, and only such a string is.
C11_LookupNormalised ==
    \A p \in Callers :
        ReturnedGenerateMulti(p) =>
            /\ OutcomeMatches(p,
                  RunAlone(NewCall("GenerateMulti",
                              [calls[p].args EXCEPT
                                  !.services = WithCatalogKeys(@)],
                              calls[p].n, <<>>),
                           Services, g, NoAnswer))
            /\ (UnknownAt(p) /= {} /\ calls[p].lookups >= FirstUnknown(p)) =>
                  calls[p].ret.err
                    = ErrUnknownService(calls[p].args.services[FirstUnknown(p)])
            /\ calls[p].ret.err.kind = "unknown service" =>
                  /\ UnknownAt(p) /= {}
                  /\ calls[p].lookups = FirstUnknown(p)

\* " Dns " was resolved to the dns service and submitted
C11_Witness ==
    \E p \in Callers :
        /\ ReturnedGenerateMulti(p)
        /\ calls[p].args.services = <<KeyDnsPadded>>
        /\ KeyDnsPadded \notin DOMAIN Services
        /\ Len(Submitted(p, calls[p].n)) = 1
        /\ Len(Submitted(p, calls[p].n)[1].Policies) = 1

\* ------------------------------------------------------------------------
\* C12
\* ------------------------------------------------------------------------

\* names of the permissions of a service
PermissionNames(svc) ==
    [k \in 1..Len(svc.Permissions) |-> svc.Permissions[k].Name]

\* the catalog as written: 18 services; each has permissions and supports
\* edit; cache, whose only permission is "Cache Purge", is the only one that
\* does not support read; ServiceLevels lists read exactly when the
\* read-filtered permission list is not empty
CatalogLevels ==
    /\ Cardinality(DOMAIN ServiceTable) = 18
    /\ \A key \in DOMAIN ServiceTable :
          /\ Len(ServiceTable[key].Permissions) > 0
          /\ Supports(ServiceTable[key], LitEdit)
          /\ Supports(ServiceTable[key], LitRead) <=> key /= KeyCache
          /\ Supports(ServiceTable[key], LitRead)
               <=> Len(filterPermissions(ServiceTable[key].Permissions,
                                         LitRead)) > 0
    /\ PermissionNames(ServiceTable[KeyCache])
         = << <<"C","a","c","h","e"," ","P","u","r","g","e">> >>

\* C12: the catalog the calls read is the catalog as written, in which
\* every service has permissions and supports edit and cache is the only
\* service that does not support read, ServiceLevels listing read exactly
\* when the read-filtered list is not empty; so a read request for one known
\* service returns the unsupported-level error exactly when it is for cache.
C12_CatalogLevels ==
    /\ Services = ServiceTable
    /\ CatalogLevels
    /\ \A p \in Callers :
          (/\ ReturnedGenerateMulti(p)
           /\ LevelOf(p) = LitRead
           /\ Len(calls[p].args.services) = 1
           /\ KeyOf(calls[p].args.services[1]) \in DOMAIN Services) =>
              (calls[p].ret.err.kind = "does not support level"
                 <=> KeyOf(calls[p].args.services[1]) = KeyCache)

\* a read request for cache returned the unsupported-level error
C12_Witness ==
    \E p \in Callers :
        /\ ReturnedGenerateMulti(p)
        /\ calls[p].args.services = <<KeyCache>>
        /\ LevelOf(p) = LitRead
        /\ calls[p].ret.err
             = ErrUnsupportedLevel(Services[KeyCache], LitRead)

\* ------------------------------------------------------------------------
\* C13
\* ------------------------------------------------------------------------

\* number of resource classes among the requested services
ClassesRequested(p) ==
    (IF Requests_Class(p, ResourceScopeZone) THEN 1 ELSE 0)
    + (IF Requests_Class(p, ResourceScopeAccount) THEN 1 ELSE 0)

\* C13: a GenerateMulti call that reaches token creation submits one policy
\* for each resource class among the requested services, however many
\* services share a class: none, one or two policies, two only for a request
\* that mixes zone-scoped and account-scoped services; each policy has
\* effect "allow" and a resources map of exactly one entry.
C13_OnePolicyPerClass ==
    \A p \in Callers :
        (ReturnedGenerateMulti(p) /\ CreatedBy(p, calls[p].n) /= <<>>) =>
            LET policies == CreatedBy(p, calls[p].n)[1].Policies
            IN  /\ Len(policies) = ClassesRequested(p)
                /\ Len(policies) <= 2
                /\ \A k \in 1..Len(policies) :
                      /\ policies[k].Effect = "allow"
                      /\ Cardinality(DOMAIN policies[k].Resources) = 1

\* two zone-scoped services were submitted in one policy
C13_Witness ==
    \E p \in Callers :
        /\ ReturnedGenerateMulti(p)
        /\ Len(calls[p].args.services) = 2
        /\ calls[p].args.services[1] /= calls[p].args.services[2]
        /\ ~Requests_Class(p, ResourceScopeAccount)
        /\ Len(CreatedBy(p, calls[p].n)) = 1
        /\ Len(CreatedBy(p, calls[p].n)[1].Policies) = 1

\* ------------------------------------------------------------------------
\* C14
\* ------------------------------------------------------------------------

\* catalog names of the requested services, in request order
RECURSIVE CatalogNames(_)
CatalogNames(requested) ==
    IF Len(requested) = 0 THEN <<>>
    ELSE <<Services[KeyOf(Head(requested))].Name>>
         \o CatalogNames(Tail(requested))

\* C14: the name GenerateMulti passes to token creation is the catalog names
\* of the requested services, in request order, joined with "-", then "-",
\* the scope as the caller wrote it, "-" and the lower-cased level; the
\* request ["workers","KV"], "all", "edit" is named workers-kv-all-edit.
C14_TokenName ==
    \A p \in Callers :
        (ReturnedGenerateMulti(p) /\ CreatedBy(p, calls[p].n) /= <<>>) =>
            LET name == CreatedBy(p, calls[p].n)[1].Name
            IN  /\ name = Join(CatalogNames(calls[p].args.services), <<"-">>)
                         \o <<"-">> \o calls[p].args.scope
                         \o <<"-">> \o LevelOf(p)
                /\ (calls[p].args = [services |-> <<KeyWorkers, KeyKvUpper>>,
                                     scope |-> LitAll, level |-> LitEdit]) =>
                      name = <<"w","o","r","k","e","r","s","-","k","v","-",
                               "a","l","l","-","e","d","i","t">>

\* ["workers","KV"], "all", "edit" was submitted
C14_Witness ==
    \E p \in Callers :
        /\ ReturnedGenerateMulti(p)
        /\ calls[p].args = [services |-> <<KeyWorkers, KeyKvUpper>>,
                            scope |-> LitAll, level |-> LitEdit]
        /\ Len(CreatedBy(p, calls[p].n)) = 1

\* ------------------------------------------------------------------------
\* C15
\* ------------------------------------------------------------------------

\* "com.cloudflare.api.": the namespace every resource path is written in
ApiNamespace ==
    <<"c","o","m",".","c","l","o","u","d","f","l","a","r","e",".","a","p","i",".">>

\* the resource path of a class and a scope token, inside the namespace
PathOf(class, scope, accountID) ==
    IF ToLower(scope) = <<"a","l","l">>
    THEN IF class = ResourceScopeZone
         THEN <<"a","c","c","o","u","n","t",".","z","o","n","e",".","*">>
         ELSE <<"a","c","c","o","u","n","t",".">> \o accountID
    ELSE IF class = ResourceScopeZone
         THEN <<"a","c","c","o","u","n","t",".","z","o","n","e",".">> \o scope
         ELSE <<"a","c","c","o","u","n","t",".">> \o scope

\* the one-entry map from that path to "*"
ResourcesOf(class, scope, accountID) ==
    (ApiNamespace \o PathOf(class, scope, accountID)) :> "*"

\* buildResources of the generator for a catalog service and the scope token
\* of the caller's request
Built(p, key) ==
    buildResources(g, Services[key], calls[p].args.scope)

\* scope "all", an account-scoped service and no account ID in the context
AccountIDMissingFor(p, key) ==
    /\ ToLower(calls[p].args.scope) = LitAll
    /\ Services[key].ResourceScope = ResourceScopeAccount
    /\ g.accountID = <<>>

\* the resource classes of the policies a request produces, in policy order
PolicyClasses(p) ==
    (IF Requests_Class(p, ResourceScopeZone)
     THEN <<ResourceScopeZone>> ELSE <<>>)
    \o (IF Requests_Class(p, ResourceScopeAccount)
        THEN <<ResourceScopeAccount>> ELSE <<>>)

\* the policies of a submitted token carry the maps of their classes
SubmittedResources(p) ==
    CreatedBy(p, calls[p].n) /= <<>> =>
        LET policies == CreatedBy(p, calls[p].n)[1].Policies
        IN  /\ Len(policies) = Len(PolicyClasses(p))
            /\ \A k \in 1..Len(policies) :
                  policies[k].Resources
                    = ResourcesOf(PolicyClasses(p)[k], calls[p].args.scope,
                                  g.accountID)

\* catalog keys of the services a request names
RequestedKeys(p) ==
    {KeyOf(calls[p].args.services[k]) : k \in 1..Len(calls[p].args.services)}
    \cap DOMAIN Services

\* C15 as stated: for every scope token and resource class buildResources
\* returns a map with exactly one entry, valued "*": scope "all" in any case
\* gives account.zone.* for the zone class and account.<accountID> for the
\* account class; any other scope S gives account.zone.<S> and account.<S>
\* with S verbatim; so every resolvable request is submitted with these maps.
C15_AlwaysOneEntry ==
    \A p \in Callers :
        (ReturnedGenerateMulti(p) /\ IsResolvable(p)) =>
            /\ \A key \in RequestedKeys(p) :
                  /\ Built(p, key).err = NoError
                  /\ Built(p, key).resources
                       = ResourcesOf(Services[key].ResourceScope,
                                     calls[p].args.scope, g.accountID)
            /\ Len(CreatedBy(p, calls[p].n)) = 1
            /\ SubmittedResources(p)

\* C15: buildResources returns a map with exactly one entry, valued "*":
\* scope "all" in any case gives account.zone.* for the zone class and
\* account.<accountID> for the account class when the context has an account
\* ID; any other scope S gives account.zone.<S> and account.<S> with S
\* verbatim; for scope "all", the account class and an empty account ID it
\* returns the account-id-required error and no map. A resolvable request
\* is submitted with these maps unless it meets that error.
C15_OneEntryUnlessAccountIDMissing ==
    \A p \in Callers :
        (ReturnedGenerateMulti(p) /\ IsResolvable(p)) =>
            /\ \A key \in RequestedKeys(p) :
                  IF AccountIDMissingFor(p, key)
                  THEN /\ Built(p, key).err
                            = ErrAccountIDRequired(Services[key])
                       /\ DOMAIN Built(p, key).resources = {}
                  ELSE /\ Built(p, key).err = NoError
                       /\ Built(p, key).resources
                            = ResourcesOf(Services[key].ResourceScope,
                                          calls[p].args.scope, g.accountID)
                       /\ Cardinality(DOMAIN Built(p, key).resources) = 1
            /\ IF NeedsMissingAccountID(p)
               THEN /\ CreatedBy(p, calls[p].n) = <<>>
                    /\ calls[p].ret.err.kind
                         = "account_id required for account-scoped service"
               ELSE /\ Len(CreatedBy(p, calls[p].n)) = 1
                    /\ SubmittedResources(p)

\* a token for an account-scoped service was submitted with the scope token
\* "Z1 " written into the path as it is
C15_Witness ==
    \E p \in Callers :
        /\ ReturnedGenerateMulti(p)
        /\ calls[p].args.scope = ScopeId
        /\ calls[p].args.services = <<KeyWorkers>>
        /\ Len(CreatedBy(p, calls[p].n)) = 1
        /\ CreatedBy(p, calls[p].n)[1].Policies[1].Resources
             = (<<"c","o","m",".","c","l","o","u","d","f","l","a","r","e",".",
                  "a","p","i",".","a","c","c","o","u","n","t",".",
                  "Z","1"," ">> :> "*")

\* ------------------------------------------------------------------------
\* C16
\* ------------------------------------------------------------------------

\* a scope hint names a resource class
ClassIndicating(hint) ==
    \/ Contains(hint, <<"z","o","n","e">>)
    \/ Contains(hint, <<"a","c","c","o","u","n","t">>)

\* class of the first class-indicating hint, "" when there is none
FirstClassOf(hints) ==
    IF \E k \in 1..Len(hints) : ClassIndicating(hints[k])
    THEN LET first == CHOOSE k \in 1..Len(hints) :
                          /\ ClassIndicating(hints[k])
                          /\ \A j \in 1..(k - 1) : ~ClassIndicating(hints[j])
         IN  IF Contains(hints[first], <<"z","o","n","e">>)
             THEN "zone" ELSE "account"
    ELSE ""

\* the groups the discovery returned to caller p's call
Discovered(p) ==
    AnswerTo(p).result

\* identifiers in the policies of a token that have the given resources
IDsUnder(token, resources) ==
    UNION {Range(IDsOf(token.Policies[k].PermissionGroups)) :
              k \in {j \in 1..Len(token.Policies) :
                        token.Policies[j].Resources = resources}}

\* C16: deriveScope returns the class of the first hint, in order, that
\* contains "zone" or "account": zone when that hint contains "zone", account
\* otherwise; so a hint containing both gives zone and an account-only hint
\* before a zone hint gives account. In the token GodMode submits, a group
\* that is not excluded by name is under the zone resources or the account
\* resources according to that class, and a group with no class-indicating
\* hint is in no policy.
C16_FirstClassIndicatingHint ==
    \A p \in Callers :
        calls[p].op = "GodMode" =>
            \A k \in 1..Len(Discovered(p)) :
                LET group == Discovered(p)[k]
                    class == FirstClassOf(group.Scopes)
                IN  /\ deriveScope(group.Scopes) = class
                    /\ group.Scopes = <<HintAccountZone>> => class = "zone"
                    /\ group.Scopes = <<HintAccount, HintZone>>
                          => class = "account"
                    /\ \A t \in 1..Len(CreatedBy(p, calls[p].n)) :
                          LET token == CreatedBy(p, calls[p].n)[t]
                              zone == IDsUnder(token,
                                          ResourcesOf(ResourceScopeZone,
                                              LitAll, g.accountID))
                              account == IDsUnder(token,
                                             ResourcesOf(ResourceScopeAccount,
                                                 LitAll, g.accountID))
                          IN  /\ group.ID \in zone
                                   <=> (class = "zone"
                                        /\ ~ManagesTokens(group))
                              /\ group.ID \in account
                                   <=> (class = "account"
                                        /\ ~ManagesTokens(group))
                              /\ class = "" => group.ID \notin SubmittedIDs(token)

\* GodMode submitted a token for a discovery of a group hinted account then
\* zone and a group with no class-indicating hint: the first is under the
\* account resources and the second in no policy
C16_Witness ==
    \E p \in Callers :
        /\ ReturnedGodMode(p)
        /\ Len(CreatedBy(p, calls[p].n)) = 1
        /\ Len(Discovered(p)) = 2
        /\ Discovered(p)[1].Scopes = <<HintAccount, HintZone>>
        /\ Discovered(p)[1].Name = NameDnsWrite
        /\ Discovered(p)[2].Scopes = <<HintUser>>
        /\ Discovered(p)[2].Name = NameDnsWrite
        /\ SubmittedIDs(CreatedBy(p, calls[p].n)[1]) = {Discovered(p)[1].ID}
        /\ Len(CreatedBy(p, calls[p].n)[1].Policies) = 1
        /\ CreatedBy(p, calls[p].n)[1].Policies[1].Resources
             = ResourcesOf(ResourceScopeAccount, LitAll, g.accountID)

\* ------------------------------------------------------------------------
\* C17
\* ------------------------------------------------------------------------

\* identifiers, in discovery order, of the groups of a class that are not
\* excluded by name
ExpectedBucket(discovered, class) ==
    LET kept == SelectSeq(discovered,
                    LAMBDA group : /\ ~ManagesTokens(group)
                                   /\ FirstClassOf(group.Scopes) = class)
    IN  [k \in 1..Len(kept) |-> [ID |-> kept[k].ID]]

\* the wildcard policy of a class, when its bucket is not empty
ExpectedPolicy(discovered, class, accountID) ==
    IF ExpectedBucket(discovered, class) = <<>> THEN <<>>
    ELSE <<[Effect |-> "allow",
            Resources |-> ResourcesOf(class, <<"a","l","l">>, accountID),
            PermissionGroups |-> ExpectedBucket(discovered, class)]>>

\* number of policies of a token that list an identifier
PoliciesListing(token, id) ==
    Cardinality({k \in 1..Len(token.Policies) :
                    id \in Range(IDsOf(token.Policies[k].PermissionGroups))})

\* C17: with an account ID and an answered discovery, GodMode submits one
\* token named "godmode" with one policy for each non-empty bucket, zone
\* before account: the zone policy has resources account.zone.* -> "*", the
\* account policy account.<accountID> -> "*", both with effect "allow"; the
\* permission groups of a policy are the identifiers of the groups of its
\* class that are not excluded by name, in discovery order, and each such
\* group is in exactly one policy.
C17_GodModePolicies ==
    \A p \in Callers :
        (/\ ReturnedGodMode(p)
         /\ g.accountID /= <<>>
         /\ AnswerTo(p).ok) =>
            /\ Len(CreatedBy(p, calls[p].n)) = 1
            /\ LET token == CreatedBy(p, calls[p].n)[1]
               IN  /\ token.Name = <<"g","o","d","m","o","d","e">>
                   /\ token.Policies
                        = ExpectedPolicy(Discovered(p), ResourceScopeZone,
                                         g.accountID)
                          \o ExpectedPolicy(Discovered(p),
                                            ResourceScopeAccount, g.accountID)
                   /\ \A k \in 1..Len(Discovered(p)) :
                         LET group == Discovered(p)[k]
                         IN  PoliciesListing(token, group.ID)
                               = IF /\ ~ManagesTokens(group)
                                    /\ FirstClassOf(group.Scopes) /= ""
                                 THEN 1 ELSE 0

\* GodMode submitted a zone policy and an account policy
C17_Witness ==
    \E p \in Callers :
        /\ ReturnedGodMode(p)
        /\ g.accountID = AccountId
        /\ Len(CreatedBy(p, calls[p].n)) = 1
        /\ CreatedBy(p, calls[p].n)[1].Name = LitGodmode
        /\ Len(CreatedBy(p, calls[p].n)[1].Policies) = 2
        /\ Discovered(p)[1].Scopes = <<HintAccount, HintZone>>
        /\ Discovered(p)[2].Scopes = <<HintUser, HintZone>>

\* ------------------------------------------------------------------------
\* C18
\* ------------------------------------------------------------------------

\* identifiers of the catalog permissions whose name contains "read" in any
\* case
ReadIDs ==
    UNION {{Services[key].Permissions[k].ID :
               k \in {j \in 1..Len(Services[key].Permissions) :
                         Contains(ToLower(Services[key].Permissions[j].Name),
                                  <<"r","e","a","d">>)}} :
           key \in DOMAIN Services}

\* a is b with some elements left out, the others in the same order
RECURSIVE IsSubSequence(_, _)
IsSubSequence(a, b) ==
    IF a = <<>> THEN TRUE
    ELSE IF b = <<>> THEN FALSE
    ELSE IF Head(a) = Head(b) THEN IsSubSequence(Tail(a), Tail(b))
    ELSE IsSubSequence(a, Tail(b))

\* caller p's request at level edit, run to the point of sending
AtEdit(p) ==
    RunAlone(NewCall("GenerateMulti",
                     [calls[p].args EXCEPT !.level = <<"e","d","i","t">>],
                     calls[p].n, <<>>),
             Services, g, NoAnswer)

\* C18: when GenerateMulti submits a token at level read, every identifier
\* in its policies is that of a catalog permission whose name contains
\* "read" in any case; the same request at level edit is submitted too, with
\* as many policies, and each read policy has the resources of the edit
\* policy at the same place and identifiers that are a sub-sequence, in the
\* same order, of the edit policy's.
C18_ReadWithinEdit ==
    \A p \in Callers :
        (/\ ReturnedGenerateMulti(p)
         /\ LevelOf(p) = LitRead
         /\ CreatedBy(p, calls[p].n) /= <<>>) =>
            LET policies == CreatedBy(p, calls[p].n)[1].Policies
            IN  /\ SubmittedIDs(CreatedBy(p, calls[p].n)[1]) \subseteq ReadIDs
                /\ AtEdit(p).pc = "create"
                /\ Len(policies) = Len(AtEdit(p).policies)
                /\ \A k \in 1..Len(policies) :
                      /\ policies[k].Resources = AtEdit(p).policies[k].Resources
                      /\ IsSubSequence(
                            IDsOf(policies[k].PermissionGroups),
                            IDsOf(AtEdit(p).policies[k].PermissionGroups))

\* dns and workers were submitted at level "READ" in two policies, each
\* with fewer identifiers than at level edit
C18_Witness ==
    \E p \in Callers :
        /\ ReturnedGenerateMulti(p)
        /\ calls[p].args.services = <<KeyDns, KeyWorkers>>
        /\ calls[p].args.level = LevelReadUpper
        /\ Len(CreatedBy(p, calls[p].n)) = 1
        /\ Len(CreatedBy(p, calls[p].n)[1].Policies) = 2
        /\ \A k \in 1..2 :
              Len(CreatedBy(p, calls[p].n)[1].Policies[k].PermissionGroups)
                < Len(AtEdit(p).policies[k].PermissionGroups)

\* ------------------------------------------------------------------------
\* C19
\* ------------------------------------------------------------------------

\* caller p's request run on another Generator
WithGenerator(p, gen) ==
    RunAlone(NewCall("GenerateMulti", calls[p].args, calls[p].n, <<>>),
             Services, gen, NoAnswer)

\* the account ID of the Generator is read for caller p's request: the scope
\* is "all" in any case and an account-scoped service is requested
ReadsAccountID(p) ==
    /\ ToLower(calls[p].args.scope) = LitAll
    /\ Requests_Class(p, ResourceScopeAccount)

\* C19: a GenerateMulti call ends the same way on any Generator that differs
\* from its own in the default zone ID alone; it ends the same way on any
\* Generator that differs in the account ID too, when the scope is not "all"
\* (in any case) or no account-scoped service is requested: the same name
\* and policies are submitted, or the same error is returned.
C19_ContextOnlyThroughAccountID ==
    \A p \in Callers :
        ReturnedGenerateMulti(p) =>
            \A gen \in Generators :
                (gen.accountID = g.accountID \/ ~ReadsAccountID(p)) =>
                    OutcomeMatches(p, WithGenerator(p, gen))

\* dns and workers were submitted for the scope "Z1 " on a Generator with an
\* account ID and a default zone ID as they are on one with neither
C19_Witness ==
    \E p \in Callers :
        /\ ReturnedGenerateMulti(p)
        /\ calls[p].args.services = <<KeyDns, KeyWorkers>>
        /\ calls[p].args.scope = ScopeId
        /\ g.accountID = AccountId
        /\ g.zoneID = ZoneId
        /\ Len(CreatedBy(p, calls[p].n)) = 1
        /\ OutcomeMatches(p, WithGenerator(p,
               [g EXCEPT !.accountID = <<>>, !.zoneID = <<>>]))

\* ------------------------------------------------------------------------
\* C20
\* ------------------------------------------------------------------------

\* C20: a resolvable request for zone-scoped and account-scoped services
\* with a scope S other than "all" (in any case) is submitted whether or not
\* the Generator has an account ID, with two policies: the zone policy on
\* account.zone.<S> and the account policy on account.<S>, S as written.
C20_MixedRequestSpecificScope ==
    \A p \in Callers :
        (/\ ReturnedGenerateMulti(p)
         /\ IsResolvable(p)
         /\ Requests_Class(p, ResourceScopeZone)
         /\ Requests_Class(p, ResourceScopeAccount)
         /\ ToLower(calls[p].args.scope) /= <<"a","l","l">>) =>
            /\ calls[p].ret.err.kind \in {"nil", "creating token"}
            /\ Len(CreatedBy(p, calls[p].n)) = 1
            /\ LET policies == CreatedBy(p, calls[p].n)[1].Policies
               IN  /\ Len(policies) = 2
                   /\ policies[1].Resources
                        = ((ApiNamespace
                            \o <<"a","c","c","o","u","n","t",".",
                                 "z","o","n","e",".">>
                            \o calls[p].args.scope) :> "*")
                   /\ policies[2].Resources
                        = ((ApiNamespace
                            \o <<"a","c","c","o","u","n","t",".">>
                            \o calls[p].args.scope) :> "*")

\* workers and dns were requested for the scope "Z1 " on a Generator with no
\* account ID and the token was created
C20_Witness ==
    \E p \in Callers :
        /\ ReturnedGenerateMulti(p)
        /\ calls[p].args.services = <<KeyWorkers, KeyDns>>
        /\ calls[p].args.scope = ScopeId
        /\ g.accountID = <<>>
        /\ calls[p].ret = [value |-> TokenValue, err |-> NoError]
        /\ Len(CreatedBy(p, calls[p].n)[1].Policies) = 2

\* ------------------------------------------------------------------------
\* C21
\* ------------------------------------------------------------------------

\* every group the discovery returned is excluded by name or has no
\* class-indicating hint
NothingToGrant(p) ==
    \A k \in 1..Len(Discovered(p)) :
        \/ ManagesTokens(Discovered(p)[k])
        \/ FirstClassOf(Discovered(p)[k].Scopes) = ""

\* C21: a token GenerateMulti submits has no policy exactly when the list of
\* requested services is empty; a request with an empty list and a valid
\* level meets no validation error and sends one creation request with no
\* policy and the name "-<scope>-<level>", scope as written and level
\* lower-cased. GodMode with an account ID and an answered discovery whose
\* groups are all excluded or unclassifiable sends one creation request
\* named "godmode" with no policy.
C21_EmptyPolicySequence ==
    \A p \in Callers :
        /\ (ReturnedGenerateMulti(p) /\ CreatedBy(p, calls[p].n) /= <<>>) =>
              (CreatedBy(p, calls[p].n)[1].Policies = <<>>
                 <=> calls[p].args.services = <<>>)
        /\ (/\ ReturnedGenerateMulti(p)
            /\ calls[p].args.services = <<>>
            /\ LevelOf(p) \in {<<"r","e","a","d">>, <<"e","d","i","t">>}) =>
              /\ calls[p].ret.err.kind \notin ValidationErrors
              /\ Len(CreatedBy(p, calls[p].n)) = 1
              /\ CreatedBy(p, calls[p].n)[1].Policies = <<>>
              /\ CreatedBy(p, calls[p].n)[1].Name
                   = <<"-">> \o calls[p].args.scope \o <<"-">> \o LevelOf(p)
        /\ (/\ ReturnedGodMode(p)
            /\ g.accountID /= <<>>
            /\ AnswerTo(p).ok
            /\ NothingToGrant(p)) =>
              /\ calls[p].ret.err.kind \notin ValidationErrors
              /\ Len(CreatedBy(p, calls[p].n)) = 1
              /\ CreatedBy(p, calls[p].n)[1].Policies = <<>>
              /\ CreatedBy(p, calls[p].n)[1].Name
                   = <<"g","o","d","m","o","d","e">>

\* no service, scope "All", level "READ": the token "-All-read" was created
\* with no policy
C21_Witness ==
    \E p \in Callers :
        /\ ReturnedGenerateMulti(p)
        /\ calls[p].args = [services |-> <<>>, scope |-> ScopeAllMixed,
                            level |-> LevelReadUpper]
        /\ calls[p].ret = [value |-> TokenValue, err |-> NoError]
        /\ Submitted(p, calls[p].n)
             = <<[Name |-> <<"-","A","l","l","-","r","e","a","d">>,
                  Policies |-> <<>>]>>

====
